---- MODULE Spec2Model ----
(***************************************************************************)
(* Blueprint-Framework: the ConnectionManager registry (node map, parent   *)
(* map, connection map, reverse-adjacency index) and the drag gesture      *)
(* callbacks it subscribes to each announced node.                         *)
(*                                                                         *)
(* A JavaScript Map is modelled as a function whose DOMAIN is the set of   *)
(* keys present.  A GUID is modelled by its underlying string; the maps    *)
(* are keyed by it.  A node object is a record of the values the manager   *)
(* reads from it: ids.self, ids.parent, getMode() and the result of its    *)
(* isCompatible().                                                         *)
(***************************************************************************)
EXTENDS Integers, FiniteSets, Sequences, TLC

\* ---------------------------------------------------------------- bounds
\* GUIDs the host uses as node self-IDs and as parent IDs.
NodeIds == {"a", "b", "c"}
ParentIds == {"p", "q"}
\* Number of connection GUIDs the manager may generate in one behaviour.
MaxConnections == 2
\* Number of announce calls in one behaviour.
MaxAnnounce == 3
\* Number of addHook calls in one behaviour, and of announce calls in a
\* behaviour that registers hooks.
MaxHooks == 2
MaxAnnounceHooks == 2
\* Number of announce calls in a behaviour that registers and removes hooks.
MaxAnnounceRegistry == 1

\* The number of announce calls before a serialize or deserialize.
MaxAnnounceSerialize == 2

\* ---------------------------------------------------------------- values
Modes == {"input", "output"}

\* null / undefined where a GUID is expected
None == "none"

\* null where a connection GUID is returned
NullConn == 0

\* null where a node is expected (getNode miss, no origin, no target);
\* reading ids.self through ?. on it gives undefined
NoNode == [self |-> None, parent |-> None, mode |-> None, compat |-> FALSE]

Node(self, parent, mode, compat) ==
    [self |-> self, parent |-> parent, mode |-> mode, compat |-> compat]

\* The node objects the host constructs: two per self-ID, so that a self-ID
\* can be announced again with another parent, mode or isCompatible.  They
\* give same-parent pairs of every mode combination, pairs that differ in
\* parent but not in mode, and pairs the origin accepts or rejects.
NodeObjs ==
    { Node("a", "p", "input", TRUE),  Node("a", "q", "input", TRUE),
      Node("b", "q", "output", TRUE), Node("b", "p", "output", FALSE),
      Node("c", "p", "input", TRUE),  Node("c", "q", "output", TRUE) }

ConnIds == 1 .. MaxConnections

\* THookType
HookTypes == {"startConnection", "endConnection", "line", "announcement",
              "connectionInitiated", "connectionTerminated"}

\* What a callback handed to addHook does when it is invoked: it returns, or
\* it throws.
Callbacks == {"returns", "throws"}

\* Callbacks that call back into the manager before they return: one
\* removes the node of the reference it is handed first (the origin), the
\* other the node of the reference it is handed second (the target).
ReentrantCallbacks == {"removes origin", "removes target"}

\* TReferance: { get: () => node, id: node.ids.self }.  With node null, get()
\* returns null and id is undefined.
Ref(node) == [isRef |-> TRUE, get |-> node, id |-> node.self]

\* undefined where a TReferance is expected
Undefined == [isRef |-> FALSE, get |-> NoNode, id |-> None]

\* What a call that throws leaves in place of its result, and the null a
\* function returns in place of an object.
Thrown == [thrown |-> TRUE]
Null == [null |-> TRUE]

\* ---------------------------------------------------------------- Map helpers
EmptyMap == [k \in {} |-> None]

MapHas(m, k) == k \in DOMAIN m

MapSet(m, k, v) == [x \in (DOMAIN m) \cup {k} |-> IF x = k THEN v ELSE m[x]]

MapDelete(m, k) == [x \in (DOMAIN m) \ {k} |-> m[x]]

\* ---------------------------------------------------------------- state
VARIABLES
    nodeMap,                \* self-ID -> node (through its reference)
    parentMap,              \* parent-ID -> (self-ID -> node)
    connectionMap,          \* connection-ID -> <<origin, destination>>
    connectionPointersMap,  \* self-ID -> (self-ID -> connection-ID)
    originNode,             \* node being dragged, or NoNode
    targetNode,             \* node hovered, or NoNode
    subscriptions,          \* node object -> number of announce calls that
                            \* subscribed callbacks to its hooks
    guids,                  \* number of connection GUIDs generated so far
    announces,              \* number of announce calls so far
    hooks,                  \* the six hook Maps: each a sequence of
                            \* [id, f] in insertion order
    hookGuids,              \* number of hook GUIDs generated so far
    dragging,               \* node whose drag gesture the host has in
                            \* progress, or NoNode
    calls,                  \* the callback invocations of the last step
    order,                  \* the insertion order of the keys of the node
                            \* map, of the parent map and of each bucket, in
                            \* the specifications that iterate them in order
    out,                    \* what the last serialize, deserialize or
                            \* lookup by GUID object was handed (id, json)
                            \* and returned (result, codec)
    last                    \* the last call and what it returned

vars == <<nodeMap, parentMap, connectionMap, connectionPointersMap,
          originNode, targetNode, subscriptions, guids, announces,
          hooks, hookGuids, dragging, calls, order, out, last>>

\* The manager's fields as one value, so that the methods are operators.
This == [nodeMap |-> nodeMap, parentMap |-> parentMap,
         connectionMap |-> connectionMap,
         connectionPointersMap |-> connectionPointersMap,
         originNode |-> originNode, targetNode |-> targetNode,
         guids |-> guids]

\* The manager with the hook Maps it inherits from Hooks, at the start of a
\* step: no callback invoked, no dispatch made, no exception raised yet.
ThisWithHooks ==
    [nodeMap |-> nodeMap, parentMap |-> parentMap,
     connectionMap |-> connectionMap,
     connectionPointersMap |-> connectionPointersMap,
     originNode |-> originNode, targetNode |-> targetNode,
     guids |-> guids, hooks |-> hooks,
     calls |-> <<>>, dispatches |-> 0, thrown |-> FALSE]

\* ---------------------------------------------------------------- GUID
\* GUID.equals: structural equality of the underlying strings.
GuidEquals(a, b) == a = b

\* ---------------------------------------------------------------- lookups
getNode(s, id) == IF MapHas(s.nodeMap, id) THEN s.nodeMap[id] ELSE NoNode

getConnection(s, id) ==
    IF MapHas(s.connectionMap, id) THEN s.connectionMap[id] ELSE <<>>

getParent(s, id) == IF MapHas(s.parentMap, id) THEN s.parentMap[id] ELSE EmptyMap

hasParent(s, id) == MapHas(s.parentMap, id)

\* node.isCompatible(other), a pure accessor of the host's node
isCompatible(node, other) == node.compat

\* ---------------------------------------------------------------- connections
\* this.connectionPointersMap.get(origin) is undefined: .has / .set / .forEach
\* on it raises a TypeError.
PointersMissing(s, id) == ~MapHas(s.connectionPointersMap, id)

testCompatibilityNoParentCheck(s, origin, destination) ==
    IF GuidEquals(origin, destination) THEN FALSE
    ELSE LET originRef == getNode(s, origin)
             destinationRef == getNode(s, destination)
         IN IF originRef = NoNode \/ destinationRef = NoNode THEN FALSE
            ELSE IF originRef.mode = destinationRef.mode THEN FALSE
            ELSE IF PointersMissing(s, origin) THEN FALSE
            ELSE IF MapHas(s.connectionPointersMap[origin], destination) THEN FALSE
            ELSE IF isCompatible(originRef, destinationRef) = FALSE THEN FALSE
            ELSE TRUE

testCompatibility(s, origin, destination) ==
    IF GuidEquals(origin, destination) THEN FALSE
    ELSE LET originRef == getNode(s, origin)
             destinationRef == getNode(s, destination)
         IN IF originRef = NoNode \/ destinationRef = NoNode THEN FALSE
            ELSE IF GuidEquals(originRef.parent, destinationRef.parent) THEN FALSE
            ELSE IF originRef.mode = destinationRef.mode THEN FALSE
            ELSE IF PointersMissing(s, origin) THEN FALSE
            ELSE IF MapHas(s.connectionPointersMap[origin], destination) THEN FALSE
            ELSE IF isCompatible(originRef, destinationRef) = FALSE THEN FALSE
            ELSE TRUE

\* testCompatibility raises instead of returning (the origin is registered
\* but has no reverse-adjacency bucket).
testCompatibilityThrows(s, origin, destination) ==
    /\ ~GuidEquals(origin, destination)
    /\ getNode(s, origin) # NoNode /\ getNode(s, destination) # NoNode
    /\ ~GuidEquals(getNode(s, origin).parent, getNode(s, destination).parent)
    /\ getNode(s, origin).mode # getNode(s, destination).mode
    /\ PointersMissing(s, origin)

\* The guard of addConnection: the call goes on to store the connection.
addConnectionProceedsInverted(s, origin, destination) ==
    /\ testCompatibility(s, origin, destination) = FALSE
    /\ ~PointersMissing(s, origin) /\ ~PointersMissing(s, destination)

addConnectionProceeds(s, origin, destination) ==
    ~(testCompatibility(s, origin, destination) = FALSE)

\* addConnection that records the index entries before it tests the pair.
addConnectionIndexFirst(s, origin, destination) ==
    LET id == s.guids + 1
        p1 == IF PointersMissing(s, origin) THEN s.connectionPointersMap
              ELSE MapSet(s.connectionPointersMap, origin,
                          MapSet(s.connectionPointersMap[origin], destination, id))
        p2 == IF PointersMissing(s, destination) THEN p1
              ELSE MapSet(p1, destination, MapSet(p1[destination], origin, id))
    IN IF ~addConnectionProceeds(s, origin, destination)
       THEN [s EXCEPT !.connectionPointersMap = p2]
       ELSE [s EXCEPT !.guids = id,
                      !.connectionPointersMap = p2,
                      !.connectionMap = MapSet(s.connectionMap, id,
                                               <<origin, destination>>)]

\* The state after addConnection(origin, destination).
addConnection(s, origin, destination) ==
    IF ~addConnectionProceeds(s, origin, destination) THEN s
    ELSE LET id == s.guids + 1
             p1 == MapSet(s.connectionPointersMap, origin,
                          MapSet(s.connectionPointersMap[origin], destination, id))
             p2 == MapSet(p1, destination, MapSet(p1[destination], origin, id))
         IN [s EXCEPT !.guids = id,
                      !.connectionPointersMap = p2,
                      !.connectionMap = MapSet(s.connectionMap, id,
                                               <<origin, destination>>)]

\* What addConnection(origin, destination) returns.
addConnectionResult(s, origin, destination) ==
    IF addConnectionProceeds(s, origin, destination) THEN s.guids + 1 ELSE NullConn

removeConnectionResult(s, id) == getConnection(s, id) # <<>>

removeConnection(s, id) ==
    IF ~removeConnectionResult(s, id) THEN s
    ELSE [s EXCEPT !.connectionMap = MapDelete(s.connectionMap, id)]

\* connections.forEach(connectionId => this.removeConnection(connectionId))
RECURSIVE removeConnections(_, _)
removeConnections(s, ids) ==
    IF ids = {} THEN s
    ELSE LET id == CHOOSE x \in ids : TRUE
         IN removeConnections(removeConnection(s, id), ids \ {id})

\* ---------------------------------------------------------------- nodes
removeNodeResultIgnoresLookup(s, id) == TRUE

\* What removeNode(id) returns.
removeNodeResult(s, id) == getNode(s, id) # NoNode

\* connections.forEach raises when the node has no reverse-adjacency bucket;
\* announce creates the bucket with the node and nothing deletes it, so a
\* registered node always has one.
removeNode(s, id) ==
    LET ref == getNode(s, id)
    IN IF ref = NoNode THEN s
       ELSE LET pm == IF MapHas(s.parentMap, ref.parent)
                      THEN MapSet(s.parentMap, ref.parent,
                                  MapDelete(s.parentMap[ref.parent], ref.self))
                      ELSE s.parentMap
                s1 == [s EXCEPT !.parentMap = pm,
                                !.nodeMap = MapDelete(s.nodeMap, id)]
                connections == IF PointersMissing(s, id) THEN EmptyMap
                               ELSE s.connectionPointersMap[id]
            IN removeConnections(s1, {connections[k] : k \in DOMAIN connections})

\* this.nodeMap.get(node) with a node object as the key: the keys of the node
\* map are the GUIDs that announce stored, so no entry is found.
getNodeByObject(s, node) == NoNode

\* What removeNode returns when it is handed the node object.
removeNodeByObjectResult(s, node) == getNodeByObject(s, node) # NoNode

\* removeNode handed the node object instead of its ID: the argument goes to
\* the node-map lookup as it is.
removeNodeByObject(s, node) ==
    IF getNodeByObject(s, node) = NoNode THEN s ELSE removeNode(s, node.self)

\* ---------------------------------------------------------------- parents
\* ref.forEach(n => this.removeNode(n.get().ids.self)): the bucket is walked
\* while removeNode deletes entries from it; a Map's forEach visits every
\* entry that is present when it is reached, so every entry is visited.
RECURSIVE removeChildren(_, _)
removeChildren(s, ids) ==
    IF ids = {} THEN s
    ELSE LET id == CHOOSE x \in ids : TRUE
         IN removeChildren(removeNode(s, id), ids \ {id})

removeParentResult(s, id) == hasParent(s, id)

removeParent(s, id) ==
    IF ~hasParent(s, id) THEN s
    ELSE LET ref == s.parentMap[id]
             s1 == removeChildren(s, {ref[k].self : k \in DOMAIN ref})
         IN [s1 EXCEPT !.parentMap = MapDelete(s1.parentMap, id)]

\* ---------------------------------------------------------------- announce
insertParent(s, id, child) ==
    IF ~MapHas(s.parentMap, id)
    THEN [s EXCEPT !.parentMap = MapSet(s.parentMap, id,
                                        MapSet(EmptyMap, child.self, child))]
    ELSE [s EXCEPT !.parentMap = MapSet(s.parentMap, id,
                                        MapSet(s.parentMap[id], child.self, child))]

announceKeepsFirst(s, node) ==
    IF MapHas(s.nodeMap, node.self) THEN s
    ELSE LET s1 == [s EXCEPT !.nodeMap = MapSet(s.nodeMap, node.self, node),
                             !.connectionPointersMap =
                                 MapSet(s.connectionPointersMap, node.self, EmptyMap)]
         IN insertParent(s1, node.parent, node)

\* The state after the registry part of announce(node).
announce(s, node) ==
    LET s1 == [s EXCEPT !.nodeMap = MapSet(s.nodeMap, node.self, node),
                        !.connectionPointersMap =
                            MapSet(s.connectionPointersMap, node.self, EmptyMap)]
    IN insertParent(s1, node.parent, node)

\* ---------------------------------------------------------------- hooks
\* The Map that the switch of execHooks, addHook, getHook and removeHook
\* selects for a hook type.
HookMap(type) ==
    CASE type = "startConnection" -> "startHooks"
      [] type = "endConnection" -> "endHooks"
      [] type = "line" -> "lineHooks"
      [] type = "announcement" -> "announcementHooks"
      [] type = "connectionInitiated" -> "connectionInitiatedHooks"
      [] type = "connectionTerminated" -> "connectionTerminatedHooks"

\* A manager is constructed with six empty hook Maps.
NoHooks == [m \in {HookMap(t) : t \in HookTypes} |-> <<>>]

\* map.forEach(f => f(a, b)) from entry i on: each callback is invoked in
\* insertion order; one that throws ends the walk and the exception leaves
\* execHooks.
\* The log entry of an invocation holds, besides the arguments, what
\* getOrigin() and getTarget() return while the callback runs, and the IDs
\* getConnection() finds a connection for.
\* The state after callback f, handed a and b, has run.
invoke(s, f, a, b) ==
    CASE f = "removes origin" -> removeNode(s, a.id)
      [] f = "removes target" -> removeNode(s, b.id)
      [] OTHER -> s

RECURSIVE forEachHook(_, _, _, _, _, _)
forEachHook(s, type, map, i, a, b) ==
    IF i > Len(map) THEN s
    ELSE LET s1 == [s EXCEPT !.calls =
                        Append(@, [type |-> type, id |-> map[i].id,
                                   dispatch |-> s.dispatches, a |-> a, b |-> b,
                                   origin |-> s.originNode,
                                   target |-> s.targetNode,
                                   connections |-> DOMAIN s.connectionMap])]
         IN IF map[i].f = "throws" THEN [s1 EXCEPT !.thrown = TRUE]
            ELSE forEachHook(invoke(s1, map[i].f, a, b), type, map, i + 1, a, b)

\* The state after execHooks(type, a, b).
execHooks(s, type, a, b) ==
    LET s1 == [s EXCEPT !.dispatches = @ + 1]
    IN forEachHook(s1, type, s1.hooks[HookMap(type)], 1, a, b)

\* The state after addHook(type, hook) generated the GUID id.
addHook(s, type, hook, id) ==
    [s EXCEPT !.hooks[HookMap(type)] = Append(@, [id |-> id, f |-> hook])]

\* The position of hook `id` in a hook Map, or 0.
HookIndex(map, id) ==
    IF \E i \in 1 .. Len(map) : map[i].id = id
    THEN CHOOSE i \in 1 .. Len(map) : map[i].id = id
    ELSE 0

\* getHook(id, type): map.get(id), undefined on a miss.
getHook(s, id, type) ==
    LET map == s.hooks[HookMap(type)]
    IN IF HookIndex(map, id) = 0 THEN None ELSE map[HookIndex(map, id)].f

\* What removeHook(id, type) returns: map.delete(id).
removeHookResult(s, id, type) == HookIndex(s.hooks[HookMap(type)], id) # 0

removeHookStartEndOnly(s, id, type) ==
    LET Others(h) == h.id # id
    IN IF type \in {"startConnection", "endConnection"}
       THEN [s EXCEPT !.hooks[HookMap(type)] = SelectSeq(@, Others)]
       ELSE s

\* The state after removeHook(id, type).
removeHook(s, id, type) ==
    LET Others(h) == h.id # id
    IN [s EXCEPT !.hooks[HookMap(type)] = SelectSeq(@, Others)]

\* ---------------------------------------------------------------- gestures
\* One mouseEnter callback of `node`.
mouseEnter(s, node) ==
    IF s.targetNode = node THEN [s EXCEPT !.targetNode = NoNode]
    ELSE [s EXCEPT !.targetNode = node]

\* node.hooks.rootPosition() and the closure variable `mouse`, which holds
\* the root position read at the node's dragStart: a point is named by the
\* node and by the moment it was read at.
RootPosition(node) == [isRef |-> FALSE, get |-> node, id |-> "rootPosition"]
Mouse(node) == [isRef |-> FALSE, get |-> node, id |-> "mouse"]

\* One dragStart callback of `node`.
dragStartDispatchesFirst(s, node) ==
    LET s1 == execHooks(s, "startConnection", Ref(node), Undefined)
    IN [s1 EXCEPT !.targetNode = NoNode, !.originNode = node]

dragStart(s, node) ==
    LET s1 == [s EXCEPT !.targetNode = NoNode, !.originNode = node]
    IN execHooks(s1, "startConnection", Ref(node), Undefined)

\* One drag callback of `node`.
drag(s, node) == execHooks(s, "line", RootPosition(node), Mouse(node))

\* One dragEnd callback of `node`; an exception that leaves execHooks leaves
\* the callback too.
dragEnd(s, node) ==
    LET target == s.targetNode
        s1 == execHooks(s, "endConnection", Ref(node), Ref(target))
        s2 == addConnection(s1, node.self, s1.targetNode.self)
    IN IF s1.thrown THEN s1
       ELSE [s2 EXCEPT !.originNode = NoNode, !.targetNode = NoNode]

\* The host fires an event: every callback subscribed to it runs, in order;
\* an exception that leaves a callback leaves the host's event dispatch.
RECURSIVE mouseEnterAll(_, _, _)
mouseEnterAll(s, node, n) ==
    IF n = 0 THEN s ELSE mouseEnterAll(mouseEnter(s, node), node, n - 1)

RECURSIVE dragStartAll(_, _, _)
dragStartAll(s, node, n) ==
    IF n = 0 \/ s.thrown THEN s
    ELSE dragStartAll(dragStart(s, node), node, n - 1)

RECURSIVE dragAll(_, _, _)
dragAll(s, node, n) ==
    IF n = 0 \/ s.thrown THEN s ELSE dragAll(drag(s, node), node, n - 1)

RECURSIVE dragEndAll(_, _, _)
dragEndAll(s, node, n) ==
    IF n = 0 \/ s.thrown THEN s ELSE dragEndAll(dragEnd(s, node), node, n - 1)

\* ---------------------------------------------------------------- actions
Call(op, o, d, conn, ok) == [op |-> op, o |-> o, d |-> d, conn |-> conn, ok |-> ok]

\* The manager's fields become those of s.
Becomes(s) ==
    /\ nodeMap' = s.nodeMap
    /\ parentMap' = s.parentMap
    /\ connectionMap' = s.connectionMap
    /\ connectionPointersMap' = s.connectionPointersMap
    /\ originNode' = s.originNode
    /\ targetNode' = s.targetNode
    /\ guids' = s.guids

\* The same, for a step that may dispatch hooks or change them.
BecomesWithHooks(s) ==
    /\ Becomes(s)
    /\ hooks' = s.hooks
    /\ calls' = s.calls

Init ==
    /\ nodeMap = EmptyMap
    /\ parentMap = EmptyMap
    /\ connectionMap = EmptyMap
    /\ connectionPointersMap = EmptyMap
    /\ originNode = NoNode
    /\ targetNode = NoNode
    /\ subscriptions = [n \in NodeObjs |-> 0]
    /\ guids = 0
    /\ announces = 0
    /\ hooks = NoHooks
    /\ hookGuids = 0
    /\ dragging = NoNode
    /\ calls = <<>>
    /\ order = [nodes |-> <<>>, parents |-> <<>>, buckets |-> EmptyMap]
    /\ out = [op |-> None, id |-> <<>>, json |-> Null, result |-> None,
              codec |-> Null]
    /\ last = Call("new", None, None, NullConn, TRUE)

Announce ==
    \E node \in NodeObjs :
        /\ announces < MaxAnnounce
        /\ Becomes(announce(This, node))
        /\ subscriptions' = [subscriptions EXCEPT ![node] = @ + 1]
        /\ announces' = announces + 1
        /\ last' = Call("announce", node.self, node.parent, NullConn, TRUE)
        /\ calls' = <<>>
        /\ UNCHANGED <<hooks, hookGuids, dragging>>
        /\ UNCHANGED <<order, out>>

TestCompatibility ==
    \E o \in NodeIds, d \in NodeIds :
        /\ ~testCompatibilityThrows(This, o, d)
        /\ last' = Call("testCompatibility", o, d, NullConn,
                        testCompatibility(This, o, d))
        /\ calls' = <<>>
        /\ UNCHANGED <<nodeMap, parentMap, connectionMap, connectionPointersMap,
                       originNode, targetNode, subscriptions, guids, announces,
                       hooks, hookGuids, dragging>>
        /\ UNCHANGED <<order, out>>

\* The destination may be undefined, as in the call a dragEnd callback makes
\* when no target is set.
AddConnection ==
    \E o \in NodeIds, d \in NodeIds \cup {None} :
        /\ ~testCompatibilityThrows(This, o, d)
        /\ addConnectionProceeds(This, o, d) => guids < MaxConnections
        /\ Becomes(addConnection(This, o, d))
        /\ last' = Call("addConnection", o, d, addConnectionResult(This, o, d),
                        addConnectionResult(This, o, d) # NullConn)
        /\ calls' = <<>>
        /\ UNCHANGED <<subscriptions, announces, hooks, hookGuids, dragging>>
        /\ UNCHANGED <<order, out>>

RemoveConnection ==
    \E id \in ConnIds :
        /\ Becomes(removeConnection(This, id))
        /\ last' = Call("removeConnection", None, None, id,
                        removeConnectionResult(This, id))
        /\ calls' = <<>>
        /\ UNCHANGED <<subscriptions, announces, hooks, hookGuids, dragging>>
        /\ UNCHANGED <<order, out>>

RemoveNode ==
    \E id \in NodeIds :
        /\ Becomes(removeNode(This, id))
        /\ last' = Call("removeNode", id, None, NullConn, removeNodeResult(This, id))
        /\ calls' = <<>>
        /\ UNCHANGED <<subscriptions, announces, hooks, hookGuids, dragging>>
        /\ UNCHANGED <<order, out>>

\* removeNode(node), the call of the example's "(Pass by node)" test.
RemoveNodeByObject ==
    \E node \in NodeObjs :
        /\ Becomes(removeNodeByObject(This, node))
        /\ last' = Call("removeNodeByObject", node.self, node.parent, NullConn,
                        removeNodeByObjectResult(This, node))
        /\ calls' = <<>>
        /\ UNCHANGED <<subscriptions, announces, hooks, hookGuids, dragging>>
        /\ UNCHANGED <<order, out>>

RemoveParent ==
    \E id \in ParentIds :
        /\ Becomes(removeParent(This, id))
        /\ last' = Call("removeParent", id, None, NullConn,
                        removeParentResult(This, id))
        /\ calls' = <<>>
        /\ UNCHANGED <<subscriptions, announces, hooks, hookGuids, dragging>>
        /\ UNCHANGED <<order, out>>

\* addHook(type, hook)
AddHook ==
    \E type \in HookTypes, hook \in Callbacks :
        /\ hookGuids < MaxHooks
        /\ BecomesWithHooks(addHook(ThisWithHooks, type, hook, hookGuids + 1))
        /\ hookGuids' = hookGuids + 1
        /\ last' = Call("addHook", type, hook, hookGuids + 1, TRUE)
        /\ UNCHANGED <<subscriptions, announces, dragging>>
        /\ UNCHANGED <<order, out>>

\* removeHook(id, type)
RemoveHook ==
    \E id \in 1 .. MaxHooks, type \in HookTypes :
        /\ BecomesWithHooks(removeHook(ThisWithHooks, id, type))
        /\ last' = Call("removeHook", type, None, id,
                        removeHookResult(ThisWithHooks, id, type))
        /\ UNCHANGED <<subscriptions, announces, hookGuids, dragging>>
        /\ UNCHANGED <<order, out>>

\* The pointer enters the hit region of an announced node.
MouseEnter ==
    \E node \in NodeObjs :
        /\ subscriptions[node] > 0
        /\ BecomesWithHooks(mouseEnterAll(ThisWithHooks, node, subscriptions[node]))
        /\ last' = Call("mouseEnter", node.self, None, NullConn, TRUE)
        /\ UNCHANGED <<subscriptions, announces, hookGuids, dragging>>
        /\ UNCHANGED <<order, out>>

\* A drag gesture starts on an announced node; the host has one gesture in
\* progress at a time.
DragStart ==
    \E node \in NodeObjs :
        /\ subscriptions[node] > 0
        /\ dragging = NoNode
        /\ LET s == dragStartAll(ThisWithHooks, node, subscriptions[node])
           IN /\ BecomesWithHooks(s)
              /\ last' = Call("dragStart", node.self, None, NullConn, ~s.thrown)
        /\ dragging' = node
        /\ UNCHANGED <<subscriptions, announces, hookGuids>>
        /\ UNCHANGED <<order, out>>

\* The dragged node moves: the line hooks are dispatched.
Drag ==
    \E node \in NodeObjs :
        /\ subscriptions[node] > 0
        /\ dragging = node
        /\ LET s == dragAll(ThisWithHooks, node, subscriptions[node])
           IN /\ BecomesWithHooks(s)
              /\ last' = Call("drag", node.self, None, NullConn, ~s.thrown)
        /\ UNCHANGED <<subscriptions, announces, hookGuids, dragging>>
        /\ UNCHANGED <<order, out>>

\* The gesture that started on `node` ends.
DragEnd ==
    \E node \in NodeObjs :
        /\ subscriptions[node] > 0
        /\ dragging = node
        /\ ~testCompatibilityThrows(ThisWithHooks, node.self, targetNode.self)
        /\ addConnectionProceeds(ThisWithHooks, node.self, targetNode.self)
               => guids < MaxConnections
        /\ LET s == dragEndAll(ThisWithHooks, node, subscriptions[node])
           IN /\ BecomesWithHooks(s)
              /\ last' = Call("dragEnd", node.self, targetNode.self,
                              IF s.guids > guids THEN s.guids ELSE NullConn,
                              ~s.thrown)
        /\ dragging' = NoNode
        /\ UNCHANGED <<subscriptions, announces, hookGuids>>
        /\ UNCHANGED <<order, out>>

Next ==
    \/ Announce
    \/ AddConnection
    \/ RemoveConnection
    \/ RemoveNode
    \/ RemoveParent

\* The registry under every sequence of calls of the public operations that
\* change it.  A gesture changes the registry only through the addConnection
\* call of its dragEnd callback, which AddConnection makes with the same
\* arguments.
Spec == Init /\ [][Next]_vars

NextQueries ==
    \/ Announce
    \/ TestCompatibility
    \/ AddConnection
    \/ RemoveConnection
    \/ RemoveNodeByObject

\* The calls that look up their arguments without finding them, or that
\* only answer a question, in the states that announce, addConnection and
\* removeConnection build.
SpecQueries == Init /\ [][NextQueries]_vars

\* The host fires the hover-leave event of a node: announce subscribes no
\* callback to node.hooks.mouseLeave, so none runs.
MouseLeave ==
    \E node \in NodeObjs :
        /\ subscriptions[node] > 0
        /\ last' = Call("mouseLeave", node.self, node.parent, NullConn, TRUE)
        /\ calls' = <<>>
        /\ UNCHANGED <<nodeMap, parentMap, connectionMap, connectionPointersMap,
                       originNode, targetNode, subscriptions, guids, announces,
                       hooks, hookGuids, dragging, order, out>>

NextGestures ==
    \/ Announce
    \/ TestCompatibility
    \/ AddConnection
    \/ RemoveNode
    \/ MouseEnter
    \/ DragStart
    \/ Drag
    \/ DragEnd

\* The registry driven by the gestures of the announced nodes.
SpecGestures == Init /\ [][NextGestures]_vars

\* addHook('endConnection', hook) with a callback that removes a node.
AddReentrantHook ==
    \E hook \in ReentrantCallbacks :
        /\ hookGuids < MaxHooks
        /\ BecomesWithHooks(addHook(ThisWithHooks, "endConnection", hook,
                                    hookGuids + 1))
        /\ hookGuids' = hookGuids + 1
        /\ last' = Call("addHook", "endConnection", hook, hookGuids + 1, TRUE)
        /\ UNCHANGED <<subscriptions, announces, dragging>>
        /\ UNCHANGED <<order, out>>

\* Gestures whose endConnection callbacks remove nodes, on a registry with
\* connections.
NextReentrant ==
    \/ (announces < MaxAnnounceHooks /\ Announce)
    \/ AddConnection
    \/ AddReentrantHook
    \/ MouseEnter
    \/ DragStart
    \/ DragEnd

SpecReentrant == Init /\ [][NextReentrant]_vars

\* The hover and drag events of announced nodes.
NextHover ==
    \/ (announces < MaxAnnounceHooks /\ Announce)
    \/ MouseEnter
    \/ MouseLeave
    \/ DragStart
    \/ DragEnd

SpecHover == Init /\ [][NextHover]_vars

NextHooks ==
    \/ (announces < MaxAnnounceHooks /\ Announce)
    \/ AddHook
    \/ MouseEnter
    \/ DragStart
    \/ Drag
    \/ DragEnd

\* The gestures of the announced nodes with callbacks registered under the
\* hook types.
SpecHooks == Init /\ [][NextHooks]_vars

\* addHook('startConnection', hook)
AddStartConnectionHook ==
    \E hook \in Callbacks :
        /\ hookGuids < MaxHooks
        /\ BecomesWithHooks(addHook(ThisWithHooks, "startConnection", hook,
                                    hookGuids + 1))
        /\ hookGuids' = hookGuids + 1
        /\ last' = Call("addHook", "startConnection", hook, hookGuids + 1, TRUE)
        /\ UNCHANGED <<subscriptions, announces, dragging>>
        /\ UNCHANGED <<order, out>>

\* The gestures around a drag-start, with startConnection callbacks.
NextDragStart ==
    \/ (announces < MaxAnnounceHooks /\ Announce)
    \/ AddStartConnectionHook
    \/ MouseEnter
    \/ DragStart
    \/ DragEnd

SpecDragStart == Init /\ [][NextDragStart]_vars

NextHookRegistry ==
    \/ (announces < MaxAnnounceRegistry /\ Announce)
    \/ AddHook
    \/ RemoveHook
    \/ DragStart
    \/ Drag
    \/ DragEnd

\* The hook registry under addHook and removeHook, with the gestures of an
\* announced node dispatching its hooks.
SpecHookRegistry == Init /\ [][NextHookRegistry]_vars

NextLifecycle ==
    \/ (announces < MaxAnnounceHooks /\ Announce)
    \/ AddHook
    \/ AddConnection
    \/ RemoveConnection
    \/ RemoveNode

\* The operations that announce nodes and that establish and remove
\* connections, with callbacks registered under the hook types.
SpecLifecycle == Init /\ [][NextLifecycle]_vars

\* ---------------------------------------------------------------- serialization
\* What the serializer reads from a node object besides its ids: the group
\* GUID object, the attributes, and the optional accessor for the attributes
\* of its parent.

\* A GUID object kept where the code compares GUID objects with each other:
\* its string, and which object it is.
GuidObj(guid, obj) == [guid |-> guid, obj |-> obj]

\* node.ids.group.  The nodes of a share one GUID object with b under p and
\* c under q; b under q carries another GUID object of the same string; c
\* under p is in another group.
Group(node) ==
    CASE node.self = "b" /\ node.parent = "q" -> GuidObj("g1", 2)
      [] node.self = "c" /\ node.parent = "p" -> GuidObj("g2", 3)
      [] OTHER -> GuidObj("g1", 1)

\* node.attributes
Attributes(node) ==
    CASE node.self = "a" -> "attributes of a"
      [] node.self = "b" -> "attributes of b"
      [] OTHER -> "attributes of c"

\* What a node's accessor answers for parent p and for parent q.
ParentAttributes(id) ==
    IF id = "p" THEN "attributes of p" ELSE "attributes of q"

JsNull == "null"
JsUndefined == "undefined"
NoAccessor == "no accessor"
TypeError == "TypeError"

\* node.getParentAttributes, by what a call of it returns; NoAccessor where
\* the node object has no such member.
getParentAttributes(node) ==
    CASE node.self = "a" /\ node.parent = "p" -> ParentAttributes("p")
      [] node.self = "a" /\ node.parent = "q" -> NoAccessor
      [] node.self = "b" /\ node.parent = "q" -> JsUndefined
      [] node.self = "b" /\ node.parent = "p" -> JsNull
      [] OTHER -> ParentAttributes(node.parent)

\* Array.prototype.indexOf(x) === -1 on an array of objects: no element is
\* the same object as x.
IndexOfIsMinusOne(array, x) == \A i \in 1 .. Len(array) : array[i] # x

\* Whether the serializer takes `group` into the groups list.
groupIsNew(groups, group) == IndexOfIsMinusOne(groups, group)

\* The keys of a Map in insertion order after set(k, ...): a key already
\* present keeps its place.
OrderSet(keys, k) ==
    IF \E i \in 1 .. Len(keys) : keys[i] = k THEN keys ELSE Append(keys, k)

\* The insertion orders after announce(node).
announceOrder(ord, node) ==
    [nodes   |-> OrderSet(ord.nodes, node.self),
     parents |-> OrderSet(ord.parents, node.parent),
     buckets |-> MapSet(ord.buckets, node.parent,
                        OrderSet(IF MapHas(ord.buckets, node.parent)
                                 THEN ord.buckets[node.parent] ELSE <<>>,
                                 node.self))]

\* nodeMap.forEach of the serializer, from the i-th key on.
RECURSIVE serializeNodes(_, _, _, _)
serializeNodes(s, ord, i, acc) ==
    IF i > Len(ord.nodes) THEN acc
    ELSE LET node  == s.nodeMap[ord.nodes[i]]
             group == Group(node)
             groups == IF groupIsNew(acc.groups, group)
                       THEN Append(acc.groups, group) ELSE acc.groups
         IN serializeNodes(s, ord, i + 1,
                [groups |-> groups,
                 nodes  |-> Append(acc.nodes,
                                   [id         |-> node.self,
                                    parent     |-> node.parent,
                                    group      |-> group,
                                    position   |-> RootPosition(node).id,
                                    attributes |-> Attributes(node)])])

\* `attributes` after the body of children.forEach has run for one child.
attributesAfter(attributes, node) ==
    IF attributes = JsNull
    THEN IF getParentAttributes(node) = NoAccessor THEN TypeError
         ELSE getParentAttributes(node)
    ELSE attributes

\* children.forEach of the serializer over the bucket of parent `id`, from
\* the i-th child on.  A TypeError ends the loop.
RECURSIVE serializeChildren(_, _, _, _, _)
serializeChildren(s, ord, id, i, acc) ==
    IF i > Len(ord.buckets[id]) \/ acc.attributes = TypeError THEN acc
    ELSE LET child == s.parentMap[id][ord.buckets[id][i]]
             attributes == attributesAfter(acc.attributes, child)
         IN serializeChildren(s, ord, id, i + 1,
                [attributes |-> attributes,
                 children   |-> IF attributes = TypeError THEN acc.children
                                ELSE Append(acc.children, child.self)])

\* The record the serializer pushes for parent `id`.
serializeParent(s, ord, id) ==
    LET r == serializeChildren(s, ord, id, 1,
                               [attributes |-> JsNull, children |-> <<>>])
    IN [id |-> id, attributes |-> r.attributes, children |-> r.children]

\* connectionsMap.forEach of the serializer: connection IDs are handed out
\* in increasing order, which is the order of insertion.
RECURSIVE serializeConnections(_, _)
serializeConnections(s, i) ==
    IF i > s.guids THEN <<>>
    ELSE (IF MapHas(s.connectionMap, i)
          THEN <<[origin |-> s.connectionMap[i][1],
                  destination |-> s.connectionMap[i][2]]>>
          ELSE <<>>) \o serializeConnections(s, i + 1)

\* The serialized object, or Thrown when the call throws a TypeError.
Serialize(s, ord) ==
    LET n == serializeNodes(s, ord, 1, [groups |-> <<>>, nodes |-> <<>>])
        parents == [i \in 1 .. Len(ord.parents) |->
                        serializeParent(s, ord, ord.parents[i])]
    IN IF \E i \in 1 .. Len(parents) : parents[i].attributes = TypeError
       THEN Thrown
       ELSE [groups      |-> n.groups,
             parents     |-> parents,
             nodes       |-> n.nodes,
             connections |-> serializeConnections(s, 1)]

\* The JSON form of a GUID object: its string.
GuidToJSON(g) == g.guid

\* JSON.stringify of the serialized object, written as the value JSON.parse
\* gives back for the text: a GUID object is reduced to its JSON form, and a
\* member whose value is undefined is left out (Absent).
Absent == "absent"

Stringify(so) ==
    [groups      |-> [i \in 1 .. Len(so.groups) |-> GuidToJSON(so.groups[i])],
     parents     |-> [i \in 1 .. Len(so.parents) |->
                         [so.parents[i] EXCEPT !.attributes =
                              IF @ = JsUndefined THEN Absent ELSE @]],
     nodes       |-> [i \in 1 .. Len(so.nodes) |->
                         [so.nodes[i] EXCEPT !.group = GuidToJSON(@)]],
     connections |-> so.connections]

\* The manager's serialize(): the JSON text, or Thrown when it throws.
serialize(s, ord) ==
    IF Serialize(s, ord) = Thrown THEN Thrown
    ELSE Stringify(Serialize(s, ord))

\* A text that is not JSON, and a string that is not a GUID.
Malformed == [text |-> "not JSON"]
BadId == "not-a-guid"

\* GUID.isValid
GuidIsValid(x) == x \in NodeIds \cup ParentIds \cup {"g1", "g2"}

\* Whether the deserializer goes past its validation of a node record.
recordIsValid(node) ==
    GuidIsValid(node.id) /\ GuidIsValid(node.parent) /\ GuidIsValid(node.group)

\* so.nodes.forEach of the deserializer, from the i-th record on.  `acc` is
\* the four maps and the calls of populateHook made so far: a record that
\* fails the validation is skipped, and for a record that passes it the
\* loop builds the TSerializedNode and does nothing with it.
RECURSIVE deserializeNodes(_, _, _)
deserializeNodes(so, i, acc) ==
    IF i > Len(so.nodes) THEN acc
    ELSE IF ~recordIsValid(so.nodes[i])
         THEN deserializeNodes(so, i + 1, acc)
         ELSE deserializeNodes(so, i + 1, acc)

\* The codec's Deserialize(json, populateHook): null for a text JSON.parse
\* throws on; otherwise the four maps it created, as the loop over the node
\* records leaves them, and the calls of populateHook it made.
Deserialize(json) ==
    IF json = Malformed THEN Null
    ELSE deserializeNodes(json, 1,
             [nodeMap               |-> EmptyMap,
              parentMap             |-> EmptyMap,
              connectionMap         |-> EmptyMap,
              connectionPointersMap |-> EmptyMap,
              populated             |-> <<>>])

\* Whether the manager's deserialize(json, populateHook) throws.
deserializeThrows(json) == Deserialize(json) = Null

\* The JSON text with the id of its i-th node record replaced by a string
\* that is not a GUID.
Corrupted(json, i) == [json EXCEPT !.nodes[i].id = BadId]

\* announce(node) with the insertion orders kept.
AnnounceInOrder ==
    \E node \in NodeObjs :
        /\ announces < MaxAnnounceSerialize
        /\ Becomes(announce(This, node))
        /\ order' = announceOrder(order, node)
        /\ subscriptions' = [subscriptions EXCEPT ![node] = @ + 1]
        /\ announces' = announces + 1
        /\ last' = Call("announce", node.self, node.parent, NullConn, TRUE)
        /\ calls' = <<>>
        /\ UNCHANGED <<hooks, hookGuids, dragging, out>>

\* serialize()
SerializeCall ==
    /\ out' = [op |-> "serialize", id |-> <<>>,
               json |-> serialize(This, order),
               result |-> IF serialize(This, order) = Thrown THEN "throws"
                          ELSE "returns",
               codec |-> Null]
    /\ last' = Call("serialize", None, None, NullConn,
                    serialize(This, order) # Thrown)
    /\ calls' = <<>>
    /\ UNCHANGED <<nodeMap, parentMap, connectionMap, connectionPointersMap,
                   originNode, targetNode, subscriptions, guids, announces,
                   hooks, hookGuids, dragging, order>>

\* The texts handed to deserialize: what the last serialize() returned, that
\* text with one of its node records corrupted, and a text that is not JSON.
Texts ==
    IF out.op = "serialize" /\ out.json # Thrown
    THEN {out.json, Malformed}
             \cup {Corrupted(out.json, i) : i \in 1 .. Len(out.json.nodes)}
    ELSE {Malformed}

\* deserialize(json, populateHook): `codec` is what the codec's function
\* returned, `result` whether the manager's method returned or threw.
DeserializeCall ==
    \E json \in Texts :
        /\ out' = [op |-> "deserialize", id |-> <<>>, json |-> json,
                   result |-> IF deserializeThrows(json) THEN "throws"
                              ELSE "returns",
                   codec |-> Deserialize(json)]
        /\ last' = Call("deserialize", None, None, NullConn,
                        ~deserializeThrows(json))
        /\ calls' = <<>>
        /\ UNCHANGED <<nodeMap, parentMap, connectionMap,
                       connectionPointersMap, originNode, targetNode,
                       subscriptions, guids, announces, hooks, hookGuids,
                       dragging, order>>

NextSerialize ==
    \/ AnnounceInOrder
    \/ AddConnection
    \/ SerializeCall
    \/ DeserializeCall

SpecSerialize == Init /\ [][NextSerialize]_vars

\* ---------------------------------------------------------------- GUID objects
\* The keys of the manager's Maps are GUID objects, and a Map finds a key
\* that is an object only when it is handed that same object.  The string
\* that keys a map of the model stands for the GUID object the host put
\* into node.ids; a GUID object constructed anew from the same string is
\* another object.
Original(id) == GuidObj(id, 1)
Copy(id) == GuidObj(id, 2)

GuidObjs(ids) == {Original(id) : id \in ids} \cup {Copy(id) : id \in ids}

\* The key of the model's maps that the Map operations get, has and delete
\* find for the GUID object g: none for an object that was never set.
MapKey(g) == IF g = Original(g.guid) THEN g.guid ELSE None

\* What a lookup by GUID object leaves in `out`.
Lookup(op, ids, result) ==
    [op |-> op, id |-> ids, json |-> Null, result |-> result, codec |-> Null]

\* getNode(id)
GetNode ==
    \E g \in GuidObjs(NodeIds) :
        /\ out' = Lookup("getNode", <<g>>, getNode(This, MapKey(g)))
        /\ last' = Call("getNode", g.guid, None, NullConn,
                        getNode(This, MapKey(g)) # NoNode)
        /\ calls' = <<>>
        /\ UNCHANGED <<nodeMap, parentMap, connectionMap, connectionPointersMap,
                       originNode, targetNode, subscriptions, guids, announces,
                       hooks, hookGuids, dragging, order>>

\* getParent(id)
GetParent ==
    \E g \in GuidObjs(ParentIds) :
        /\ out' = Lookup("getParent", <<g>>, getParent(This, MapKey(g)))
        /\ last' = Call("getParent", g.guid, None, NullConn,
                        hasParent(This, MapKey(g)))
        /\ calls' = <<>>
        /\ UNCHANGED <<nodeMap, parentMap, connectionMap, connectionPointersMap,
                       originNode, targetNode, subscriptions, guids, announces,
                       hooks, hookGuids, dragging, order>>

\* testCompatibility(origin, destination) handed GUID objects: equals
\* compares the strings, the Maps look the objects up.
testCompatibilityOf(s, g, h) ==
    IF GuidEquals(g.guid, h.guid) THEN FALSE
    ELSE testCompatibility(s, MapKey(g), MapKey(h))

TestCompatibilityOf ==
    \E g \in GuidObjs(NodeIds), h \in GuidObjs(NodeIds) :
        /\ ~testCompatibilityThrows(This, MapKey(g), MapKey(h))
        /\ out' = Lookup("testCompatibility", <<g, h>>,
                         testCompatibilityOf(This, g, h))
        /\ last' = Call("testCompatibility", g.guid, h.guid, NullConn,
                        testCompatibilityOf(This, g, h))
        /\ calls' = <<>>
        /\ UNCHANGED <<nodeMap, parentMap, connectionMap, connectionPointersMap,
                       originNode, targetNode, subscriptions, guids, announces,
                       hooks, hookGuids, dragging, order>>

\* removeNode(id)
RemoveNodeOf ==
    \E g \in GuidObjs(NodeIds) :
        /\ Becomes(removeNode(This, MapKey(g)))
        /\ out' = Lookup("removeNode", <<g>>, removeNodeResult(This, MapKey(g)))
        /\ last' = Call("removeNode", g.guid, None, NullConn,
                        removeNodeResult(This, MapKey(g)))
        /\ calls' = <<>>
        /\ UNCHANGED <<subscriptions, announces, hooks, hookGuids, dragging,
                       order>>

NextGuidObjects ==
    \/ (announces < MaxAnnounceHooks /\ Announce)
    \/ GetNode
    \/ GetParent
    \/ TestCompatibilityOf
    \/ RemoveNodeOf

SpecGuidObjects == Init /\ [][NextGuidObjects]_vars

\* ---------------------------------------------------------------- properties
Registered(id) == MapHas(nodeMap, id)

Endpoints(c) == {connectionMap[c][1], connectionMap[c][2]}

\* A connection between a and b, in either order, is in the connection map.
Connected(a, b) ==
    \E c \in DOMAIN connectionMap : connectionMap[c] \in {<<a, b>>, <<b, a>>}

\* The reverse-adjacency index has an entry a -> b.
Indexed(a, b) ==
    MapHas(connectionPointersMap, a) /\ MapHas(connectionPointersMap[a], b)

\* C1: the reverse-adjacency index and the connection map describe the same
\* relation: the index holds a -> b -> c exactly when the connection map
\* holds connection c with endpoints a and b, in either order.
C1_IndexMatchesConnectionMap ==
    \A a \in NodeIds, b \in NodeIds, c \in ConnIds :
        (Indexed(a, b) /\ connectionPointersMap[a][b] = c)
            <=> (MapHas(connectionMap, c)
                 /\ connectionMap[c] \in {<<a, b>>, <<b, a>>})

\* C2: the connection map holds at most one connection between any unordered
\* pair of node IDs.
C2_AtMostOneConnectionPerPair ==
    \A c1 \in DOMAIN connectionMap, c2 \in DOMAIN connectionMap :
        c1 # c2 => Endpoints(c1) # Endpoints(c2)

\* C3: both endpoints of every stored connection resolve through getNode to
\* registered nodes.
C3_EndpointsRegistered ==
    \A c \in DOMAIN connectionMap :
        /\ getNode(This, connectionMap[c][1]) # NoNode
        /\ getNode(This, connectionMap[c][2]) # NoNode

\* C4: after removeNode(A) returned true, getNode(A) is none, the bucket of
\* A's parent does not contain A's ID, and every connection that had A as
\* origin or destination is gone from the connection map.
C4_RemoveNodeRemovesAll ==
    [][\A id \in NodeIds :
          (last'.op = "removeNode" /\ last'.o = id /\ last'.ok)
              => /\ ~MapHas(nodeMap', id)
                 /\ MapHas(parentMap', nodeMap[id].parent)
                        => ~MapHas(parentMap'[nodeMap[id].parent], id)
                 /\ \A c \in DOMAIN connectionMap :
                        id \in Endpoints(c) => ~MapHas(connectionMap', c)]_vars

\* C5: removeConnection(c) on an existing connection c between A and B removes
\* c from the connection map and the index entries A -> B and B -> A.
C5_RemoveConnectionCleansIndex ==
    [][\A c \in ConnIds :
          (last'.op = "removeConnection" /\ last'.conn = c /\ last'.ok)
              => /\ ~MapHas(connectionMap', c)
                 /\ ~(MapHas(connectionPointersMap', connectionMap[c][1])
                      /\ MapHas(connectionPointersMap'[connectionMap[c][1]],
                                connectionMap[c][2]))
                 /\ ~(MapHas(connectionPointersMap', connectionMap[c][2])
                      /\ MapHas(connectionPointersMap'[connectionMap[c][2]],
                                connectionMap[c][1]))]_vars

\* A and B are registered, under distinct parents, of distinct modes, and A's
\* isCompatible accepts B.
Connectable(a, b) ==
    /\ Registered(a) /\ Registered(b)
    /\ nodeMap[a].parent # nodeMap[b].parent
    /\ nodeMap[a].mode # nodeMap[b].mode
    /\ isCompatible(nodeMap[a], nodeMap[b])

\* C6: for connectable A and B the first addConnection(A, B) returns a new
\* connection ID c with getConnection(c) = (A, B); an addConnection of the
\* same pair, in either order, while a connection between them exists
\* returns none and adds nothing.
C6_AddConnectionOncePerPair ==
    [][\A o \in NodeIds, d \in NodeIds :
          (last'.op = "addConnection" /\ last'.o = o /\ last'.d = d)
              => /\ (Connectable(o, d) /\ guids = 0)
                        => /\ last'.conn # NullConn
                           /\ ~MapHas(connectionMap, last'.conn)
                           /\ MapHas(connectionMap', last'.conn)
                           /\ connectionMap'[last'.conn] = <<o, d>>
                 /\ Connected(o, d)
                        => /\ last'.conn = NullConn
                           /\ connectionMap' = connectionMap]_vars

\* C7: addConnection(A, A) returns none, for registered and unregistered A
\* alike, and no stored connection has its origin as its destination.
C7_NoSelfConnection ==
    /\ \A c \in DOMAIN connectionMap : connectionMap[c][1] # connectionMap[c][2]
    /\ (last.op = "addConnection" /\ last.o = last.d)
           => (last.conn = NullConn /\ ~last.ok)

\* addConnection(A, A) was called on a registered A and returned none.
C7_Witness ==
    /\ last.op = "addConnection" /\ last.o = last.d
    /\ Registered(last.o)
    /\ last.conn = NullConn

\* C8: for two registered nodes with the same parent ID testCompatibility is
\* false, whatever their modes and isCompatible, and addConnection returns
\* none.
C8_SameParentIncompatible ==
    \A a \in NodeIds, b \in NodeIds :
        (a # b /\ Registered(a) /\ Registered(b)
             /\ nodeMap[a].parent = nodeMap[b].parent)
            => /\ ~testCompatibility(This, a, b)
               /\ (last.op = "addConnection" /\ last.o = a /\ last.d = b)
                      => last.conn = NullConn

\* addConnection returned none for two registered nodes that share a parent
\* and that pass every other rule: distinct modes, no entry in the index, and
\* an origin whose isCompatible accepts.
C8_Witness ==
    /\ last.op = "addConnection" /\ last.conn = NullConn
    /\ last.o # last.d /\ Registered(last.o) /\ Registered(last.d)
    /\ nodeMap[last.o].parent = nodeMap[last.d].parent
    /\ nodeMap[last.o].mode # nodeMap[last.d].mode
    /\ ~Indexed(last.o, last.d)
    /\ isCompatible(nodeMap[last.o], nodeMap[last.d])

\* C9: testCompatibility(o, d) is true exactly when o differs from d, both are
\* registered, their parents differ, their modes differ, no connection exists
\* between them in either direction, and the origin's isCompatible accepts.
C9_CompatibleIffRules ==
    \A o \in NodeIds, d \in NodeIds :
        testCompatibility(This, o, d)
            <=> (o # d /\ Connectable(o, d) /\ ~Connected(o, d))

\* C10: a testCompatibility call, and an addConnection call that returns
\* none, change none of the maps nor the drag state; addConnection returns an
\* ID exactly when testCompatibility is true in the state before the call.
C10_FailedCallsChangeNothing ==
    [][/\ (last'.op = "testCompatibility"
            \/ (last'.op = "addConnection" /\ last'.conn = NullConn))
           => UNCHANGED <<nodeMap, parentMap, connectionMap,
                          connectionPointersMap, originNode, targetNode>>
       /\ last'.op = "addConnection"
           => /\ (last'.conn # NullConn)
                     <=> testCompatibility(This, last'.o, last'.d)
              /\ last'.conn # NullConn
                     => (~MapHas(connectionMap, last'.conn)
                         /\ MapHas(connectionMap', last'.conn))]_vars

\* addConnection returned none for two distinct registered nodes while a
\* connection is stored.
C10_Witness ==
    /\ last.op = "addConnection" /\ last.conn = NullConn
    /\ last.o # last.d /\ Registered(last.o) /\ Registered(last.d)
    /\ connectionMap # EmptyMap

\* The self-IDs held by the bucket of parent P.
Children(P) == IF MapHas(parentMap, P) THEN DOMAIN parentMap[P] ELSE {}

\* C11: after removeParent(P) on a registered parent P, getParent(P) is none,
\* getNode is none for every node that was in P's bucket, and every
\* connection that touched one of those nodes is gone from the connection
\* map.
C11_RemoveParentRemovesAll ==
    [][\A P \in ParentIds :
          (last'.op = "removeParent" /\ last'.o = P /\ last'.ok)
              => /\ ~MapHas(parentMap', P)
                 /\ \A n \in Children(P) : ~MapHas(nodeMap', n)
                 /\ \A c \in DOMAIN connectionMap :
                        Endpoints(c) \cap Children(P) # {}
                            => ~MapHas(connectionMap', c)]_vars

\* C12: removeNode, removeParent and removeConnection called with an ID that
\* is not registered return false or none and leave every map and the drag
\* state as they were; a removal that follows a removal of the same ID
\* returns false or none.
C12_UnknownRemovalsChangeNothing ==
    [][/\ \A id \in NodeIds :
              (last'.op = "removeNode" /\ last'.o = id)
                  => /\ last'.ok <=> Registered(id)
                     /\ (last.op = "removeNode" /\ last.o = id) => ~last'.ok
       /\ \A id \in ParentIds :
              (last'.op = "removeParent" /\ last'.o = id)
                  => /\ last'.ok <=> MapHas(parentMap, id)
                     /\ (last.op = "removeParent" /\ last.o = id) => ~last'.ok
       /\ \A id \in ConnIds :
              (last'.op = "removeConnection" /\ last'.conn = id)
                  => /\ last'.ok <=> MapHas(connectionMap, id)
                     /\ (last.op = "removeConnection" /\ last.conn = id)
                            => ~last'.ok
       /\ (last'.op \in {"removeNode", "removeParent", "removeConnection"}
              /\ ~last'.ok)
             => UNCHANGED <<nodeMap, parentMap, connectionMap,
                            connectionPointersMap, originNode, targetNode>>]_vars

\* removeNode returned false for an ID that the call before it removed, while
\* another node, a parent and a connection are still stored.
C12_Witness ==
    /\ last.op = "removeNode" /\ ~last.ok
    /\ ~Registered(last.o)
    /\ MapHas(connectionPointersMap, last.o)
    /\ nodeMap # EmptyMap /\ parentMap # EmptyMap /\ connectionMap # EmptyMap

\* C13: removeNode(N), handed the registered node object N, has the effect of
\* removeNode(N.ids.self): N leaves the node map and its parent's bucket,
\* and the call returns true.
C13_RemoveNodeByObjectOrId ==
    [][\A node \in NodeObjs :
          (last'.op = "removeNodeByObject" /\ last'.o = node.self
               /\ last'.d = node.parent /\ getNode(This, node.self) = node)
              => /\ last'.ok = removeNodeResult(This, node.self)
                 /\ Becomes(removeNode(This, node.self))
                 /\ ~MapHas(nodeMap', node.self)
                 /\ ~MapHas(parentMap'[node.parent], node.self)]_vars

\* The step is announce(n) for a node n whose self-ID is id.
AnnounceOf(id) == last'.op = "announce" /\ last'.o = id

\* The step is announce(n) and getNode(n.ids.self) returns n after it.
AnnouncedIsReturned(id) ==
    AnnounceOf(id)
        => /\ MapHas(nodeMap', id)
           /\ nodeMap'[id] \in NodeObjs
           /\ nodeMap'[id].self = id /\ nodeMap'[id].parent = last'.d

\* getNode(id) is none and stays none unless the step announces id.
NoneUntilAnnounced(id) == (~Registered(id) /\ ~AnnounceOf(id)) => ~MapHas(nodeMap', id)

\* C14 as stated: after announce(n), getNode(n.ids.self) returns n, and keeps
\* returning it across every step that is not a removeNode or a
\* removeParent; getNode of an ID that was never announced returns none.
C14_GetNodeUntilRemoved ==
    [][\A id \in NodeIds :
          /\ AnnouncedIsReturned(id)
          /\ (Registered(id) /\ last'.op \notin {"removeNode", "removeParent"})
                 => (MapHas(nodeMap', id) /\ nodeMap'[id] = nodeMap[id])
          /\ NoneUntilAnnounced(id)]_vars

\* C14 as amended: after announce(n), getNode(n.ids.self) returns n, and keeps
\* returning it across every step that is not a removeNode, a removeParent
\* or an announce of a node with the same self-ID; getNode of an ID that was
\* never announced returns none.
C14_GetNodeUntilRemovedOrReannounced ==
    [][\A id \in NodeIds :
          /\ AnnouncedIsReturned(id)
          /\ (Registered(id) /\ last'.op \notin {"removeNode", "removeParent"}
                  /\ ~AnnounceOf(id))
                 => (MapHas(nodeMap', id) /\ nodeMap'[id] = nodeMap[id])
          /\ NoneUntilAnnounced(id)]_vars

\* A node is still returned by getNode after a connection was added, then
\* removed, and another node's parent was removed.
C14_Witness ==
    /\ last.op = "removeParent" /\ last.ok
    /\ guids > 0 /\ connectionMap = EmptyMap
    /\ \E id \in NodeIds : Registered(id) /\ nodeMap[id].parent # last.o

\* C15: the parent map is the partition of the registered nodes by their
\* parent ID: each registered node's reference is in the bucket of its parent
\* and in no other bucket, and every bucket entry refers to a registered
\* node.
C15_ParentMapIsPartition ==
    /\ \A id \in DOMAIN nodeMap :
           /\ MapHas(parentMap, nodeMap[id].parent)
           /\ MapHas(parentMap[nodeMap[id].parent], id)
           /\ parentMap[nodeMap[id].parent][id] = nodeMap[id]
           /\ \A P \in DOMAIN parentMap :
                  P # nodeMap[id].parent => ~MapHas(parentMap[P], id)
    /\ \A P \in DOMAIN parentMap :
           \A k \in DOMAIN parentMap[P] :
               Registered(k) /\ nodeMap[k] = parentMap[P][k]

\* The invocations of the step's log made with hook `id`.
CallsOf(log, id) == {i \in 1 .. Len(log) : log[i].id = id}

\* The scenario of C16 is at its drag-end: N and M were announced once each
\* and are compatible, N's drag-start made it the origin, and the hover-enter
\* on M, the event before this one, made it the target.
DragScenario(N, M) ==
    /\ subscriptions[N] = 1 /\ subscriptions[M] = 1
    /\ getNode(This, N.self) = N /\ getNode(This, M.self) = M
    /\ testCompatibility(This, N.self, M.self)
    /\ dragging = N /\ originNode = N
    /\ last.op = "mouseEnter" /\ last.o = M.self /\ targetNode = M
    /\ last'.op = "dragEnd"

\* C16: in the drag scenario (drag-start on N, hover-enter on M, drag-end on
\* N, with N and M announced and compatible) every endConnection callback is
\* invoked with (reference to N, reference to M), exactly one connection is
\* created and its stored pair is (N.id, M.id), and getOrigin() and
\* getTarget() are none afterwards.
C16_DragScenario ==
    [][\A N \in NodeObjs, M \in NodeObjs :
          DragScenario(N, M)
              => /\ \A k \in 1 .. Len(hooks.endHooks) :
                        \E i \in CallsOf(calls', hooks.endHooks[k].id) :
                            /\ calls'[i].type = "endConnection"
                            /\ calls'[i].a = Ref(N) /\ calls'[i].b = Ref(M)
                 /\ guids' = guids + 1
                 /\ connectionMap' = MapSet(connectionMap, guids', <<N.self, M.self>>)
                 /\ originNode' = NoNode /\ targetNode' = NoNode]_vars

\* C17: after every drag-end, whatever its outcome (a connection created, an
\* incompatible target, no target, a callback that throws), getOrigin() and
\* getTarget() are both none.
C17_IdleAfterDragEnd ==
    [][last'.op = "dragEnd"
          => (originNode' = NoNode /\ targetNode' = NoNode)]_vars

\* C18: when drag-end fires while no target is set, every endConnection
\* callback is invoked with the origin reference and with none as the
\* destination, not with a reference object.
C18_NoTargetDestinationIsNone ==
    [][(last'.op = "dragEnd" /\ targetNode = NoNode)
          => \A i \in 1 .. Len(calls') :
                 /\ calls'[i].type = "endConnection"
                 /\ calls'[i].a = Ref(dragging)
                 /\ calls'[i].b = Undefined]_vars

\* C19: a drag-end that fires while no target is set raises nothing, adds no
\* connection and changes no registry map nor hook; its only state change is
\* that origin and target are cleared.
C19_NoTargetNoConnection ==
    [][(last'.op = "dragEnd" /\ targetNode = NoNode)
          => /\ last'.ok
             /\ last'.conn = NullConn
             /\ UNCHANGED <<nodeMap, parentMap, connectionMap,
                            connectionPointersMap, guids, hooks>>
             /\ originNode' = NoNode /\ targetNode' = NoNode]_vars

\* The hook type that the callbacks of a gesture event dispatch.
DispatchedBy(op) ==
    CASE op = "dragStart" -> "startConnection"
      [] op = "drag" -> "line"
      [] op = "dragEnd" -> "endConnection"

\* The IDs of the callbacks that dispatch number d of the log invoked, in
\* the order of their invocation.
InvokedBy(log, d) ==
    LET InDispatch(c) == c.dispatch = d
        part == SelectSeq(log, InDispatch)
    IN [i \in 1 .. Len(part) |-> part[i].id]

\* The IDs of the callbacks registered under a hook type, in the order of
\* their registration.
RegisteredUnder(type) ==
    [i \in 1 .. Len(hooks[HookMap(type)]) |-> hooks[HookMap(type)][i].id]

\* C20: every dispatch of a gesture event invokes the callbacks registered
\* under its hook type, each once, in registration order, and no callback
\* registered under another type.
C20_DispatchAllInOrder ==
    [][last'.op \in {"dragStart", "drag", "dragEnd"}
          => /\ RegisteredUnder(DispatchedBy(last'.op)) # <<>> => calls' # <<>>
             /\ calls' # <<>> => calls'[1].dispatch = 1
             /\ \A i \in 1 .. Len(calls') :
                    /\ calls'[i].type = DispatchedBy(last'.op)
                    /\ InvokedBy(calls', calls'[i].dispatch)
                           = RegisteredUnder(DispatchedBy(last'.op))]_vars

\* The node whose gesture event the step is.
EventNode == IF last'.op = "dragStart" THEN dragging' ELSE dragging

\* C21: when a callback of a dispatch throws, every other callback registered
\* under the same hook type is still invoked in that dispatch, and the
\* gesture callback that dispatched completes: each subscribed callback of
\* the event dispatches, nothing is raised to the host, a drag-start leaves
\* the node as origin, and a drag-end attempts its connection and clears
\* origin and target.
C21_FailingCallbackIsIsolated ==
    [][last'.op \in {"dragStart", "drag", "dragEnd"}
          => /\ \A d \in 1 .. subscriptions[EventNode] :
                    \A k \in 1 .. Len(hooks[HookMap(DispatchedBy(last'.op))]) :
                        \E i \in 1 .. Len(calls') :
                            /\ calls'[i].dispatch = d
                            /\ calls'[i].id
                                   = hooks[HookMap(DispatchedBy(last'.op))][k].id
             /\ last'.ok
             /\ last'.op = "dragStart" => originNode' = dragging'
             /\ last'.op = "dragEnd"
                    => /\ originNode' = NoNode /\ targetNode' = NoNode
                       /\ testCompatibility(This, dragging.self, targetNode.self)
                              => last'.conn # NullConn]_vars

\* The hook Maps before and after the step, as getHook reads them.
HooksBefore == [hooks |-> hooks]
HooksAfter == [hooks |-> hooks']

\* The number of callbacks registered under all hook types.
HookCount ==
    Len(hooks.startHooks) + Len(hooks.endHooks) + Len(hooks.lineHooks)
        + Len(hooks.announcementHooks) + Len(hooks.connectionInitiatedHooks)
        + Len(hooks.connectionTerminatedHooks)

\* C22: for each hook type, addHook(type, f) returns an ID that no hook had
\* and under which getHook of that type returns f; removeHook of a
\* registered (type, id) returns true, after it getHook returns none and no
\* dispatch invokes the callback; removeHook of an absent (type, id)
\* returns false and changes nothing; neither call touches another hook.
C22_HookRegistry ==
    [][/\ last'.op = "addHook"
           => /\ \A t \in HookTypes : getHook(HooksBefore, last'.conn, t) = None
              /\ getHook(HooksAfter, last'.conn, last'.o) = last'.d
       /\ last'.op = "removeHook"
           => /\ last'.ok <=> getHook(HooksBefore, last'.conn, last'.o) # None
              /\ getHook(HooksAfter, last'.conn, last'.o) = None
              /\ ~last'.ok
                     => UNCHANGED <<hooks, nodeMap, parentMap, connectionMap,
                                    connectionPointersMap, originNode, targetNode>>
       /\ last'.op \in {"addHook", "removeHook"}
           => \A t \in HookTypes, id \in 1 .. MaxHooks :
                  (t # last'.o \/ id # last'.conn)
                      => getHook(HooksAfter, id, t) = getHook(HooksBefore, id, t)
       /\ last'.op \in {"dragStart", "drag", "dragEnd"}
           => \A i \in 1 .. Len(calls') :
                  getHook(HooksBefore, calls'[i].id, calls'[i].type) # None]_vars

\* Two hooks were added and one of them removed, and a gesture event has
\* dispatched to the one that is left.
C22_Witness ==
    /\ hookGuids = 2 /\ HookCount = 1
    /\ last.op \in {"dragStart", "drag", "dragEnd"}
    /\ calls # <<>>

\* Every callback registered under `type` was invoked in the step.
AllInvoked(type) ==
    \A k \in 1 .. Len(hooks[HookMap(type)]) :
        \E i \in 1 .. Len(calls') :
            /\ calls'[i].type = type
            /\ calls'[i].id = hooks[HookMap(type)][k].id

\* C23: an announce invokes every callback registered under announcement, an
\* addConnection that establishes a connection invokes every callback under
\* connectionInitiated, and a removeConnection, removeNode or removeParent
\* that removes a connection invokes every callback under
\* connectionTerminated.
C23_LifecycleHooksFire ==
    [][/\ last'.op = "announce" => AllInvoked("announcement")
       /\ (last'.op = "addConnection" /\ last'.conn # NullConn)
              => AllInvoked("connectionInitiated")
       /\ (last'.op \in {"removeConnection", "removeNode", "removeParent"}
               /\ DOMAIN connectionMap' # DOMAIN connectionMap)
              => AllInvoked("connectionTerminated")]_vars

\* The four maps `d` have the structure of the registry: the same node IDs,
\* the same parents with the same children, the same connections between
\* the same endpoints, and the same reverse-adjacency index.
EquivalentToRegistry(d) ==
    /\ d # Null
    /\ DOMAIN d.nodeMap = DOMAIN nodeMap
    /\ DOMAIN d.parentMap = DOMAIN parentMap
    /\ \A P \in DOMAIN parentMap :
           DOMAIN d.parentMap[P] = DOMAIN parentMap[P]
    /\ {d.connectionMap[c] : c \in DOMAIN d.connectionMap}
           = {connectionMap[c] : c \in DOMAIN connectionMap}
    /\ DOMAIN d.connectionPointersMap = DOMAIN connectionPointersMap
    /\ \A n \in DOMAIN connectionPointersMap :
           DOMAIN d.connectionPointersMap[n] = DOMAIN connectionPointersMap[n]

\* The last call was deserialize, of the text serialize() gives for the
\* registry as it is.
RoundTrip ==
    /\ out.op = "deserialize"
    /\ serialize(This, order) # Thrown
    /\ out.json = serialize(This, order)

\* C24: deserializing what serialize produced yields node, parent,
\* connection and reverse-adjacency maps structurally equivalent to the
\* manager's.
C24_RoundTrip == RoundTrip => EquivalentToRegistry(out.codec)

\* C25: handed a text that is not JSON, neither the codec's deserialize
\* function nor the manager's deserialize method throws: both return a
\* failure value, and the registry is left as it was.
C25_MalformedJsonIsNoThrow ==
    [][(last'.op = "deserialize" /\ out'.json = Malformed)
           => /\ out'.codec = Null
              /\ out'.result = "returns"
              /\ This' = This]_vars

\* The number of entries of seq that are `x`.
RECURSIVE Count(_, _)
Count(seq, x) ==
    IF seq = <<>> THEN 0
    ELSE (IF Head(seq) = x THEN 1 ELSE 0) + Count(Tail(seq), x)

\* C26: deserialize passes each node record whose three IDs are valid to the
\* populate hook exactly once and inserts it into the node map and into the
\* bucket of its parent; a record with a malformed ID is skipped.
C26_DeserializePopulates ==
    (out.op = "deserialize" /\ out.json # Malformed)
        => \A i \in 1 .. Len(out.json.nodes) :
               LET node == out.json.nodes[i]
               IN IF recordIsValid(node)
                  THEN /\ Count(out.codec.populated, node) = 1
                       /\ MapHas(out.codec.nodeMap, node.id)
                       /\ MapHas(out.codec.parentMap, node.parent)
                       /\ MapHas(out.codec.parentMap[node.parent], node.id)
                  ELSE /\ Count(out.codec.populated, node) = 0
                       /\ ~MapHas(out.codec.nodeMap, node.id)

\* The entries of seq without those that repeat an earlier entry.
RECURSIVE FirstSeen(_, _)
FirstSeen(seq, seen) ==
    IF seq = <<>> THEN <<>>
    ELSE IF Head(seq) \in seen THEN FirstSeen(Tail(seq), seen)
         ELSE <<Head(seq)>> \o FirstSeen(Tail(seq), seen \cup {Head(seq)})

\* C27: the groups list of the serialized form holds the group identifier of
\* every node exactly once, two identifier objects of the same string
\* counting as the same group, in the order in which the groups are first
\* seen among the node records.
C27_GroupsOnceEach ==
    (out.op = "serialize" /\ out.json # Thrown)
        => out.json.groups
               = FirstSeen([i \in 1 .. Len(out.json.nodes) |->
                                out.json.nodes[i].group], {})

\* What the accessors of the children give, in the order of the bucket:
\* nothing for a child without an accessor or whose accessor returns null or
\* undefined.
SuppliedBy(children) ==
    SelectSeq([i \in 1 .. Len(children) |-> getParentAttributes(children[i])],
              LAMBDA v : v \notin {NoAccessor, JsNull, JsUndefined})

\* Whether `attributes` is what the claim gives a parent with these
\* children: the first value supplied, or none (null or undefined) when no
\* child supplies one.
IsFirstSupplied(attributes, children) ==
    IF SuppliedBy(children) = <<>> THEN attributes \in {JsNull, JsUndefined}
    ELSE attributes = Head(SuppliedBy(children))

\* The children of parent id, in the order of its bucket.
BucketInOrder(id) ==
    [i \in 1 .. Len(order.buckets[id]) |-> parentMap[id][order.buckets[id][i]]]

\* C28: serialize gives each parent the first value other than none that the
\* parent-attributes accessor of one of its children returns, in bucket
\* order; a child without the accessor, or whose accessor returns null or
\* undefined, is passed over without error; the attributes are none only
\* when no child supplies a value.
C28_ParentAttributesFirstSupplied ==
    [][last'.op = "serialize"
          => /\ out'.result = "returns"
             /\ \A i \in 1 .. Len(order.parents) :
                    IsFirstSupplied(
                        Serialize(This, order).parents[i].attributes,
                        BucketInOrder(order.parents[i]))]_vars

\* The strings of the GUID objects the last lookup was handed.
StringsOf(ids) == [i \in 1 .. Len(ids) |-> ids[i].guid]

\* C29: getNode, getParent, testCompatibility and removeNode handed any GUID
\* object of a string, the registered one or another one constructed from
\* the same string, return and do what they return and do for the
\* registered GUID object of that string.
C29_LookupsByValue ==
    [][LET id == StringsOf(out'.id)
       IN /\ last'.op = "getNode" => out'.result = getNode(This, id[1])
          /\ last'.op = "getParent" => out'.result = getParent(This, id[1])
          /\ last'.op = "testCompatibility"
                 => out'.result = testCompatibility(This, id[1], id[2])
          /\ last'.op = "removeNode"
                 => /\ out'.result = removeNodeResult(This, id[1])
                    /\ This' = removeNode(This, id[1])]_vars

\* C30: a drag-start on N has cleared the target and made N the origin
\* before it dispatches startConnection with the reference of N: every
\* startConnection callback it invokes is handed the reference of N and
\* observes getOrigin() = N and getTarget() = none, and that is the state
\* the drag-start leaves.
C30_OriginSetBeforeStartConnection ==
    [][last'.op = "dragStart"
          => /\ originNode' = dragging'
             /\ targetNode' = NoNode
             /\ \A i \in 1 .. Len(calls') :
                    /\ calls'[i].type = "startConnection"
                    /\ calls'[i].a = Ref(dragging')
                    /\ calls'[i].origin = dragging'
                    /\ calls'[i].target = NoNode]_vars

\* A drag-start on a node has invoked two startConnection callbacks.
C30_Witness ==
    /\ last.op = "dragStart"
    /\ originNode = dragging /\ dragging # NoNode
    /\ Len(calls) >= 2
    /\ \A i \in 1 .. Len(calls) : calls[i].origin = dragging

\* A hover-enter event on node object M was the step, and it left the target
\* toggled once: none if M was the target, M otherwise.
ToggledOnce(M) ==
    /\ M.self = last'.o
    /\ subscriptions[M] > 0
    /\ targetNode' = IF targetNode = M THEN NoNode ELSE M

\* C31: a hover-enter on a node M that is not the target makes M the target,
\* whatever the target was, and a hover-enter on M when M is the target
\* clears the target.
C31_HoverEnterToggles ==
    [][last'.op = "mouseEnter" => \E M \in NodeObjs : ToggledOnce(M)]_vars

\* C32: a hover-leave on node M that directly follows the hover-enter that
\* made M the target leaves M no longer the target.
C32_HoverLeaveClearsTarget ==
    [][\A M \in NodeObjs :
           (/\ last.op = "mouseEnter" /\ targetNode = M
            /\ last'.op = "mouseLeave"
            /\ last'.o = M.self /\ last'.d = M.parent)
               => targetNode' # M]_vars

\* C33: the target is never the node that is the origin.
C33_TargetIsNotOrigin == originNode # NoNode => targetNode # originNode

\* C34: an ID has a reverse-adjacency bucket exactly when a node with that
\* ID is registered.
C34_BucketIffRegistered == DOMAIN connectionPointersMap = DOMAIN nodeMap

\* C35: a drag-end dispatches endConnection before it attempts the
\* connection and before it clears origin and target: every endConnection
\* callback it invokes observes the node of the event as the origin, the
\* target the drag-end read as the target, and the connections that existed
\* before the drag-end.
C35_EndConnectionBeforeConnect ==
    [][last'.op = "dragEnd"
          => \A i \in 1 .. Len(calls') :
                 /\ calls'[i].type = "endConnection"
                 /\ calls'[i].origin = dragging
                 /\ calls'[i].target = targetNode
                 /\ calls'[i].connections = DOMAIN connectionMap]_vars

\* The IDs of the registered nodes that the callbacks of the step removed.
RemovedByCallbacks ==
    {r \in DOMAIN nodeMap :
        \E i \in 1 .. Len(calls') :
            \/ /\ getHook(HooksBefore, calls'[i].id, calls'[i].type)
                      = "removes origin"
               /\ calls'[i].a.id = r
            \/ /\ getHook(HooksBefore, calls'[i].id, calls'[i].type)
                      = "removes target"
               /\ calls'[i].b.id = r}

\* Nothing in the connection map or in the reverse-adjacency index of `s`
\* refers to the ID r.
NoReferenceTo(s, r) ==
    /\ \A c \in DOMAIN s.connectionMap :
           s.connectionMap[c][1] # r /\ s.connectionMap[c][2] # r
    /\ ~MapHas(s.connectionPointersMap, r)
    /\ \A n \in DOMAIN s.connectionPointersMap :
           ~MapHas(s.connectionPointersMap[n], r)

\* C36: a drag-end whose endConnection callback removes the origin node or
\* the target node still completes without raising, creates no connection,
\* clears origin and target, and leaves the connection map and the
\* reverse-adjacency index without a reference to the removed node.
C36_RemovalDuringDragEnd ==
    [][(last'.op = "dragEnd" /\ RemovedByCallbacks # {})
          => /\ last'.ok
             /\ last'.conn = NullConn
             /\ originNode' = NoNode /\ targetNode' = NoNode
             /\ \A r \in RemovedByCallbacks :
                    /\ ~MapHas(nodeMap', r)
                    /\ NoReferenceTo(This', r)]_vars

\* C37: when removeConnection has just removed the connection that
\* addConnection established between A and B, and A and B are registered and
\* compatible but for the connections between them, testCompatibility(A, B)
\* is true and addConnection(A, B) establishes a connection with a new ID.
C37_RemovedConnectionCanBeRecreated ==
    [][(last'.op = "removeConnection" /\ last'.ok)
          => LET A == connectionMap[last'.conn][1]
                 B == connectionMap[last'.conn][2]
             IN Connectable(A, B)
                    => /\ testCompatibility(This', A, B)
                       /\ addConnectionResult(This', A, B) = guids' + 1]_vars

\* C38: the parent map has a bucket for P exactly when a registered node has
\* parent P, so it holds no empty bucket.
C38_NoEmptyParentBucket ==
    \A P \in ParentIds :
        /\ hasParent(This, P)
               <=> \E n \in DOMAIN nodeMap : nodeMap[n].parent = P
        /\ hasParent(This, P) => getParent(This, P) # EmptyMap

\* C39: the origin and the target are registered nodes or none.
C39_DragStateIsRegistered ==
    /\ originNode # NoNode => getNode(This, originNode.self) = originNode
    /\ targetNode # NoNode => getNode(This, targetNode.self) = targetNode

\* C40: however often a node was announced, one hover-enter event on it
\* toggles the target once, one drag-start invokes every callback registered
\* under startConnection once, and one drag-end invokes every callback
\* registered under endConnection once.
C40_AnnounceDoesNotMultiplyHandlers ==
    [][/\ last'.op = "mouseEnter" => \E M \in NodeObjs : ToggledOnce(M)
       /\ last'.op \in {"dragStart", "dragEnd"}
              => \A k \in 1 .. Len(RegisteredUnder(DispatchedBy(last'.op))) :
                     Cardinality(CallsOf(calls',
                         RegisteredUnder(DispatchedBy(last'.op))[k])) = 1]_vars

====
